---------------------------- MODULE Spec2Model ----------------------------
(***************************************************************************)
(* Model of the MQTT v3.1.1 packet encoder (src/src/codec3/codec/encode.rs)*)
(* and of the control-packet abstraction (src/src/v3/control.rs).          *)
(*                                                                         *)
(* Byte buffers (BytesMut, Bytes, ByteString, &[u8]) are sequences of      *)
(* integers in 0..255.  Option<T> is a sequence of length 0 (None) or 1    *)
(* (Some).  Result<(), EncodeError> is a string: "Ok" or the error name.   *)
(***************************************************************************)
EXTENDS Integers, Sequences, FiniteSets, TLC

VARIABLES
    packet_id,      \* Subscribe.packet_id
    topics,         \* Subscribe.topics : Vec<(ByteString, QoS)>
    codes,          \* Subscribe.codes  : Vec<SubscribeReturnCode>
    iter,           \* the live SubscribeIter: None, or Some([entry |-> usize])
    handles,        \* the Subscription values the live iterator has yielded
    last,           \* history: the last call made on the handle of each entry
    result,         \* the SubscribeResult: None before ack(), Some after
    unsub,          \* the Unsubscribe in flight and its UnsubscribeResult:
                    \* None, or Some([packet_id, topics, result])
    packet,         \* encode: the packet argument (None when idle)
    content_size,   \* encode / write_variable_length: the size argument
    dst0,           \* the destination buffer as it was before the call
    dst,            \* the destination buffer
    ret             \* what the call returned ("none" before it ran)

ctlVars == <<packet_id, topics, codes, iter, handles, last, result, unsub>>
encVars == <<packet, content_size, dst0, dst, ret>>
vars == <<packet_id, topics, codes, iter, handles, last, result, unsub,
          packet, content_size, dst0, dst, ret>>

-----------------------------------------------------------------------------
(* Bounds of the model                                                     *)

\* longest Subscribe request handed to the control object
MaxTopics == 2
\* longest short string / byte buffer field of an encoded packet
MaxShort == 1
\* longest status sequence of an encoded SubscribeAck
MaxStatus == 2
\* longest filter list of an encoded Subscribe / Unsubscribe
MaxFilters == 2

-----------------------------------------------------------------------------
(* Values                                                                  *)

None == <<>>
Some(x) == <<x>>
is_some(o) == o # <<>>
unwrap(o) == o[1]

\* u16::MAX, the largest length u16::try_from accepts
U16_MAX == 65535

\* QoS and its numeric value (u8::from(qos), qos as u8, qos.into())
QoS == {"AtMostOnce", "AtLeastOnce", "ExactlyOnce"}
QoSu8(qos) ==
    CASE qos = "AtMostOnce" -> 0
      [] qos = "AtLeastOnce" -> 1
      [] qos = "ExactlyOnce" -> 2

\* codec::SubscribeReturnCode
Failure == [tag |-> "Failure"]
Success(qos) == [tag |-> "Success", qos |-> qos]
SubscribeReturnCode == {Failure} \cup {Success(q) : q \in QoS}

\* ConnectAckReason and its numeric value (From<ConnectAckReason> for u8)
ConnectAckReason ==
    {"ConnectionAccepted", "UnacceptableProtocolVersion", "IdentifierRejected",
     "ServiceUnavailable", "BadUserNameOrPassword", "NotAuthorized"}
ReasonU8(code) ==
    CASE code = "ConnectionAccepted" -> 0
      [] code = "UnacceptableProtocolVersion" -> 1
      [] code = "IdentifierRejected" -> 2
      [] code = "ServiceUnavailable" -> 3
      [] code = "BadUserNameOrPassword" -> 4
      [] code = "NotAuthorized" -> 5

-----------------------------------------------------------------------------
(* Bit arithmetic on u8                                                    *)

Pow2(k) == 2 ^ k
Bit(x, k) == (x \div Pow2(k)) % 2
\* the integer whose set bits are the positions in S
RECURSIVE FromBits(_)
FromBits(S) ==
    IF S = {} THEN 0
    ELSE LET k == CHOOSE x \in S : TRUE IN Pow2(k) + FromBits(S \ {k})
\* a | b and a & b on values below 2^31
BitOr(a, b) == FromBits({k \in 0..30 : Bit(a, k) = 1 \/ Bit(b, k) = 1})
BitAnd(a, b) == FromBits({k \in 0..30 : Bit(a, k) = 1 /\ Bit(b, k) = 1})
\* x << k on a u8 (the bits shifted out are lost)
Shl8(x, k) == (x * Pow2(k)) % 256
\* x >> k on a usize
Shr(x, k) == x \div Pow2(k)
\* x as u8
AsU8(x) == x % 256

\* packet_type::* (first byte of the fixed header)
CONNECT == 16
CONNACK == 32
PUBLISH_START == 48
PUBACK == 64
PUBREC == 80
PUBREL == 98
PUBCOMP == 112
SUBSCRIBE == 130
SUBACK == 144
UNSUBSCRIBE == 162
UNSUBACK == 176
PINGREQ == 192
PINGRESP == 208
DISCONNECT == 224

\* protocol level byte of Connect
MQTT_LEVEL == 4

\* ConnectFlags bits and WILL_QOS_SHIFT
USERNAME == 128
PASSWORD == 64
WILL_RETAIN == 32
WILL_QOS == 24
WILL == 4
CLEAN_SESSION == 2
WILL_QOS_SHIFT == 3
\* ConnectFlags::from_bits_truncate: keep only the bits ConnectFlags defines
from_bits_truncate(b) ==
    BitAnd(b, USERNAME + PASSWORD + WILL_RETAIN + WILL_QOS + WILL + CLEAN_SESSION)

-----------------------------------------------------------------------------
(* BufMut primitives                                                       *)

put_u8(buf, b) == Append(buf, b)
put_u16(buf, v) == buf \o <<v \div 256, v % 256>>
put_slice(buf, s) == buf \o s

\* the outcome of a fallible write: the buffer and the Result
Done(buf) == [dst |-> buf, ret |-> "Ok"]
Err(buf, e) == [dst |-> buf, ret |-> e]
\* the ? operator goes on only when the step before returned Ok
IsOk(r) == r.ret = "Ok"

-----------------------------------------------------------------------------
(* impl Encode for NonZeroU16 / Bytes / ByteString / &[u8]                 *)

NonZeroU16_encode(id, buf) == Done(put_u16(buf, id))

\* Bytes::encode casting the length (len as u16) instead of converting it
Bytes_encode_Truncating(self, buf) ==
    Done(put_slice(put_u16(buf, Len(self) % 65536), self))

Bytes_encode(self, buf) ==
    IF Len(self) > U16_MAX
    THEN Err(buf, "InvalidLength")
    ELSE Done(put_slice(put_u16(buf, Len(self)), self))

ByteString_encode(self, buf) == Bytes_encode(self, buf)

Slice_encode(self, buf) ==
    IF Len(self) > U16_MAX
    THEN Err(buf, "InvalidLength")
    ELSE Done(put_slice(put_u16(buf, Len(self)), self))

-----------------------------------------------------------------------------
(* write_variable_length                                                   *)

\* write_variable_length with the second size class one too wide
write_variable_length_WideClass(size, buf) ==
    IF size <= 127 THEN
        put_u8(buf, AsU8(size))
    ELSE IF size <= 16384 THEN
        put_slice(buf, <<AsU8(BitOr(size % 128, 128)), AsU8(Shr(size, 7))>>)
    ELSE IF size <= 2097151 THEN
        put_slice(buf, <<AsU8(BitOr(size % 128, 128)),
                         AsU8(BitOr(Shr(size, 7) % 128, 128)),
                         AsU8(Shr(size, 14))>>)
    ELSE
        put_slice(buf, <<AsU8(BitOr(size % 128, 128)),
                         AsU8(BitOr(Shr(size, 7) % 128, 128)),
                         AsU8(BitOr(Shr(size, 14) % 128, 128)),
                         AsU8(Shr(size, 21))>>)

\* write_variable_length clearing bit 7 of the fourth byte
write_variable_length_MaskedLast(size, buf) ==
    IF size <= 127 THEN
        put_u8(buf, AsU8(size))
    ELSE IF size <= 16383 THEN
        put_slice(buf, <<AsU8(BitOr(size % 128, 128)), AsU8(Shr(size, 7))>>)
    ELSE IF size <= 2097151 THEN
        put_slice(buf, <<AsU8(BitOr(size % 128, 128)),
                         AsU8(BitOr(Shr(size, 7) % 128, 128)),
                         AsU8(Shr(size, 14))>>)
    ELSE
        put_slice(buf, <<AsU8(BitOr(size % 128, 128)),
                         AsU8(BitOr(Shr(size, 7) % 128, 128)),
                         AsU8(BitOr(Shr(size, 14) % 128, 128)),
                         AsU8(Shr(size, 21)) % 128>>)

write_variable_length(size, buf) ==
    IF size <= 127 THEN
        put_u8(buf, AsU8(size))
    ELSE IF size <= 16383 THEN
        put_slice(buf, <<AsU8(BitOr(size % 128, 128)), AsU8(Shr(size, 7))>>)
    ELSE IF size <= 2097151 THEN
        put_slice(buf, <<AsU8(BitOr(size % 128, 128)),
                         AsU8(BitOr(Shr(size, 7) % 128, 128)),
                         AsU8(Shr(size, 14))>>)
    ELSE
        put_slice(buf, <<AsU8(BitOr(size % 128, 128)),
                         AsU8(BitOr(Shr(size, 7) % 128, 128)),
                         AsU8(BitOr(Shr(size, 14) % 128, 128)),
                         AsU8(Shr(size, 21))>>)

-----------------------------------------------------------------------------
(* get_encoded_size                                                        *)

RECURSIVE SumFilterQos(_)
SumFilterQos(fs) ==
    IF fs = <<>> THEN 0
    ELSE SumFilterQos(SubSeq(fs, 1, Len(fs) - 1)) + 2 + Len(fs[Len(fs)][1]) + 1

RECURSIVE SumFilter(_)
SumFilter(fs) ==
    IF fs = <<>> THEN 0
    ELSE SumFilter(SubSeq(fs, 1, Len(fs) - 1)) + 2 + Len(fs[Len(fs)])

\* the Packet::Connect arm
ConnectSize(p) ==
    LET n0 == 2 + 4 + 1 + 1 + 2
        n1 == n0 + 2 + Len(p.client_id)
        n2 == IF is_some(p.last_will)
              THEN n1 + 2 + Len(unwrap(p.last_will).topic)
                      + 2 + Len(unwrap(p.last_will).message)
              ELSE n1
        n3 == IF is_some(p.username)
              THEN n2 + 2 + Len(unwrap(p.username)) ELSE n2
        n4 == IF is_some(p.password)
              THEN n3 + 2 + Len(unwrap(p.password)) ELSE n3
    IN n4

\* a Publish sized without its packet id
PublishSize_NoPacketId(p) == 2 + Len(p.topic) + Len(p.payload)

\* the Packet::Publish arm
PublishSize(p) ==
    IF p.qos = "AtLeastOnce" \/ p.qos = "ExactlyOnce"
    THEN 4 + Len(p.topic) + Len(p.payload)
    ELSE 2 + Len(p.topic) + Len(p.payload)

get_encoded_size(p) ==
    CASE p.type = "Connect" -> ConnectSize(p)
      [] p.type = "Publish" -> PublishSize(p)
      [] p.type \in {"ConnectAck", "PublishAck", "PublishReceived",
                     "PublishRelease", "PublishComplete", "UnsubscribeAck"} -> 2
      [] p.type = "Subscribe" -> 2 + SumFilterQos(p.topic_filters)
      [] p.type = "SubscribeAck" -> 2 + Len(p.status)
      [] p.type = "Unsubscribe" -> 2 + SumFilter(p.topic_filters)
      [] p.type \in {"PingRequest", "PingResponse", "Disconnect"} -> 0

-----------------------------------------------------------------------------
(* encode_connect                                                          *)

\* the connect flags with WILL_RETAIN set for every will
ConnectFlagsOf_AlwaysRetain(connect) ==
    LET f0 == 0
        f1 == IF is_some(connect.username) THEN BitOr(f0, USERNAME) ELSE f0
        f2 == IF is_some(connect.password) THEN BitOr(f1, PASSWORD) ELSE f1
        f3 == IF is_some(connect.last_will)
              THEN LET w == unwrap(connect.last_will)
                       g0 == BitOr(f2, WILL)
                       g1 == BitOr(g0, WILL_RETAIN)
                       b == QoSu8(w.qos)
                   IN BitOr(g1, from_bits_truncate(Shl8(b, WILL_QOS_SHIFT)))
              ELSE f2
        f4 == IF connect.clean_session THEN BitOr(f3, CLEAN_SESSION) ELSE f3
    IN f4

\* let mut flags = ConnectFlags::empty(); ... flags.bits()
ConnectFlagsOf(connect) ==
    LET f0 == 0
        f1 == IF is_some(connect.username) THEN BitOr(f0, USERNAME) ELSE f0
        f2 == IF is_some(connect.password) THEN BitOr(f1, PASSWORD) ELSE f1
        f3 == IF is_some(connect.last_will)
              THEN LET w == unwrap(connect.last_will)
                       g0 == BitOr(f2, WILL)
                       g1 == IF w.retain THEN BitOr(g0, WILL_RETAIN) ELSE g0
                       b == QoSu8(w.qos)
                   IN BitOr(g1, from_bits_truncate(Shl8(b, WILL_QOS_SHIFT)))
              ELSE f2
        f4 == IF connect.clean_session THEN BitOr(f3, CLEAN_SESSION) ELSE f3
    IN f4

\* put_slice(&[MQTT_LEVEL, flags.bits()]); put_u16(keep_alive);
\* client_id.encode(dst)?
ConnectClientId(connect, r) ==
    IF IsOk(r)
    THEN ByteString_encode(connect.client_id,
             put_u16(put_slice(r.dst, <<MQTT_LEVEL, ConnectFlagsOf(connect)>>),
                     connect.keep_alive))
    ELSE r

\* if let Some(LastWill { topic, .. }) = last_will { topic.encode(dst)?; ..
ConnectWillTopic(connect, r) ==
    IF IsOk(r) /\ is_some(connect.last_will)
    THEN ByteString_encode(unwrap(connect.last_will).topic, r.dst)
    ELSE r

\* .. message.encode(dst)?; }
ConnectWillMessage(connect, r) ==
    IF IsOk(r) /\ is_some(connect.last_will)
    THEN Bytes_encode(unwrap(connect.last_will).message, r.dst)
    ELSE r

\* if let Some(ref s) = *username { s.encode(dst)?; }
ConnectUsername(connect, r) ==
    IF IsOk(r) /\ is_some(connect.username)
    THEN ByteString_encode(unwrap(connect.username), r.dst)
    ELSE r

\* if let Some(ref s) = *password { s.encode(dst)?; }
ConnectPassword(connect, r) ==
    IF IsOk(r) /\ is_some(connect.password)
    THEN Bytes_encode(unwrap(connect.password), r.dst)
    ELSE r

encode_connect(connect, buf) ==
    ConnectPassword(connect,
        ConnectUsername(connect,
            ConnectWillMessage(connect,
                ConnectWillTopic(connect,
                    ConnectClientId(connect,
                        Slice_encode(<<77, 81, 84, 84>>, buf))))))

-----------------------------------------------------------------------------
(* encode                                                                  *)

\* for &(ref filter, qos) in topic_filters { filter.encode(dst)?; put_u8(qos) }
RECURSIVE EncodeFilterQos(_, _)
EncodeFilterQos(fs, buf) ==
    IF fs = <<>> THEN Done(buf)
    ELSE LET r == ByteString_encode(fs[1][1], buf)
         IN IF IsOk(r)
            THEN EncodeFilterQos(Tail(fs), put_u8(r.dst, QoSu8(fs[1][2])))
            ELSE r

\* for filter in topic_filters { filter.encode(dst)?; }
RECURSIVE EncodeFilters(_, _)
EncodeFilters(fs, buf) ==
    IF fs = <<>> THEN Done(buf)
    ELSE LET r == ByteString_encode(fs[1], buf)
         IN IF IsOk(r) THEN EncodeFilters(Tail(fs), r.dst) ELSE r

\* a status byte that reports Failure as 0
StatusByte_FailureAsZero(s) == IF s.tag = "Success" THEN QoSu8(s.qos) ELSE 0

\* status.iter().map(|s| match *s { Success(qos) => qos.into(), _ => 0x80 })
StatusByte(s) == IF s.tag = "Success" THEN QoSu8(s.qos) ELSE 128
StatusBytes(status) == [i \in 1..Len(status) |-> StatusByte(status[i])]

\* the first byte of a Publish with dup and retain exchanged
PublishHeader_DupRetainSwapped(publish) ==
    BitOr(BitOr(BitOr(PUBLISH_START, Shl8(QoSu8(publish.qos), 1)),
                Shl8(IF publish.retain THEN 1 ELSE 0, 3)),
          IF publish.dup THEN 1 ELSE 0)

\* the first byte of a Publish
PublishHeader(publish) ==
    BitOr(BitOr(BitOr(PUBLISH_START, Shl8(QoSu8(publish.qos), 1)),
                Shl8(IF publish.dup THEN 1 ELSE 0, 3)),
          IF publish.retain THEN 1 ELSE 0)

\* the Publish arm with its two packet id errors exchanged
EncodePublishTail_SwappedErrors(publish, r) ==
    IF ~IsOk(r) THEN r
    ELSE IF publish.qos = "AtMostOnce"
    THEN IF is_some(publish.packet_id)
         THEN Err(r.dst, "PacketIdRequired")
         ELSE Done(put_slice(r.dst, publish.payload))
    ELSE IF ~is_some(publish.packet_id)
         THEN Err(r.dst, "MalformedPacket")
         ELSE Done(put_slice(
                  NonZeroU16_encode(unwrap(publish.packet_id), r.dst).dst,
                  publish.payload))

\* the Packet::Publish arm after publish.topic.encode(dst), whose outcome is r
EncodePublishTail(publish, r) ==
    IF ~IsOk(r) THEN r
    ELSE IF publish.qos = "AtMostOnce"
    THEN IF is_some(publish.packet_id)
         THEN Err(r.dst, "MalformedPacket")
         ELSE Done(put_slice(r.dst, publish.payload))
    ELSE IF ~is_some(publish.packet_id)
         THEN Err(r.dst, "PacketIdRequired")
         ELSE Done(put_slice(
                  NonZeroU16_encode(unwrap(publish.packet_id), r.dst).dst,
                  publish.payload))

\* the arms that write the packet id only
EncodePacketId(ty, p, buf, size) ==
    NonZeroU16_encode(p.packet_id, write_variable_length(size, put_u8(buf, ty)))

encode(p, buf, size) ==
    CASE p.type = "Connect" ->
            encode_connect(p, write_variable_length(size, put_u8(buf, CONNECT)))
      [] p.type = "ConnectAck" ->
            LET flags_byte == IF p.session_present THEN 1 ELSE 0
                code == ReasonU8(p.return_code)
            IN Done(put_slice(write_variable_length(size, put_u8(buf, CONNACK)),
                              <<flags_byte, code>>))
      [] p.type = "Publish" ->
            EncodePublishTail(p,
                ByteString_encode(p.topic,
                    write_variable_length(size, put_u8(buf, PublishHeader(p)))))
      [] p.type = "PublishAck" -> EncodePacketId(PUBACK, p, buf, size)
      [] p.type = "PublishReceived" -> EncodePacketId(PUBREC, p, buf, size)
      [] p.type = "PublishRelease" -> EncodePacketId(PUBREL, p, buf, size)
      [] p.type = "PublishComplete" -> EncodePacketId(PUBCOMP, p, buf, size)
      [] p.type = "Subscribe" ->
            LET r == EncodePacketId(SUBSCRIBE, p, buf, size)
            IN IF IsOk(r) THEN EncodeFilterQos(p.topic_filters, r.dst) ELSE r
      [] p.type = "SubscribeAck" ->
            LET r == EncodePacketId(SUBACK, p, buf, size)
            IN IF IsOk(r) THEN Done(put_slice(r.dst, StatusBytes(p.status))) ELSE r
      [] p.type = "Unsubscribe" ->
            LET r == EncodePacketId(UNSUBSCRIBE, p, buf, size)
            IN IF IsOk(r) THEN EncodeFilters(p.topic_filters, r.dst) ELSE r
      [] p.type = "UnsubscribeAck" -> EncodePacketId(UNSUBACK, p, buf, size)
      [] p.type = "PingRequest" -> Done(put_slice(buf, <<PINGREQ, 0>>))
      [] p.type = "PingResponse" -> Done(put_slice(buf, <<PINGRESP, 0>>))
      [] p.type = "Disconnect" -> Done(put_slice(buf, <<DISCONNECT, 0>>))


-----------------------------------------------------------------------------
(* Subscribe, SubscribeIter, Subscription (v3/control.rs)                  *)

\* Subscribe::new granting the requested QoS by default
Subscribe_new_GrantRequested(pid, ts) ==
    [packet_id |-> pid,
     topics |-> ts,
     codes |-> [i \in 1..Len(ts) |-> Success(ts[i][2])]]

\* Subscribe::new: one Failure slot per requested topic
Subscribe_new(pid, ts) ==
    [packet_id |-> pid,
     topics |-> ts,
     codes |-> [i \in 1..Len(ts) |-> Failure]]

\* Subscribe::iter_mut
Subscribe_iter_mut == [entry |-> 0]

\* next_unsafe handing out the first slot for every entry
next_unsafe_FirstSlot(it, ts) ==
    IF it.entry < Len(ts)
    THEN [iter |-> [entry |-> it.entry + 1],
          item |-> Some([topic |-> ts[it.entry + 1][1],
                         qos |-> ts[it.entry + 1][2],
                         code |-> 0])]
    ELSE [iter |-> it, item |-> None]

\* SubscribeIter::next_unsafe: the advanced iterator and the item it returns.
\* A Subscription holds the topic, the requested QoS and a reference to one
\* slot of codes, modelled as the slot's index.
next_unsafe(it, ts) ==
    IF it.entry < Len(ts)
    THEN [iter |-> [entry |-> it.entry + 1],
          item |-> Some([topic |-> ts[it.entry + 1][1],
                         qos |-> ts[it.entry + 1][2],
                         code |-> it.entry])]
    ELSE [iter |-> it, item |-> None]

\* Subscription::subscribe granting the QoS from its entry to the last one
Subscription_subscribe_FromEntryOn(cs, s, qos) ==
    [i \in DOMAIN cs |-> IF i >= s.code + 1 THEN Success(qos) ELSE cs[i]]

\* Subscription::fail and Subscription::subscribe: *self.code = ...
Subscription_fail(cs, s) == [cs EXCEPT ![s.code + 1] = Failure]
Subscription_subscribe(cs, s, qos) == [cs EXCEPT ![s.code + 1] = Success(qos)]

\* Subscribe::ack
Subscribe_ack(cs, pid) == [codes |-> cs, packet_id |-> pid]

\* Unsubscribe::new; result is the UnsubscribeResult that ack() will produce
Unsubscribe_new(pid, ts) == [packet_id |-> pid, topics |-> ts, result |-> None]

\* Unsubscribe::ack
Unsubscribe_ack(u) == [packet_id |-> u.packet_id]

\* the SubscribeAck packet serialized for a SubscribeResult
SubscribeAckOf(res) ==
    [type |-> "SubscribeAck", packet_id |-> res.packet_id, status |-> res.codes]

-----------------------------------------------------------------------------
(* Inputs                                                                  *)

\* a string of n bytes, distinct from position to position
Str(n, b) == [i \in 1..n |-> (b + i) % 256]
ShortStr(b) == {Str(n, b) : n \in 0..MaxShort}
LongStr(b) == {Str(U16_MAX, b), Str(U16_MAX + 1, b)}
AnyStr(b) == ShortStr(b) \cup LongStr(b)

RECURSIVE SeqsUpTo(_, _)
SeqsUpTo(S, n) ==
    IF n = 0 THEN {<<>>}
    ELSE LET shorter == SeqsUpTo(S, n - 1)
         IN shorter \cup {Append(q, x) : q \in {t \in shorter : Len(t) = n - 1}, x \in S}

InitialBuffers == {<<>>, <<170>>}
PacketIds == {1, 4660, 65535}

\* the Subscribe requests handed to the control object
CtlTopicNames == {<<97>>, <<98>>}
CtlTopics == SeqsUpTo(CtlTopicNames \X QoS, MaxTopics)
CtlPacketIds == {1, 4660}
\* the Unsubscribe requests handed to the control object
UnsubTopics == SeqsUpTo(CtlTopicNames, MaxTopics)

-----------------------------------------------------------------------------
(* The control object's life: new, traversals, calls, ack, serialization   *)

\* no Subscribe in flight
NoSubscribe ==
    /\ packet_id = 1
    /\ topics = <<>>
    /\ codes = <<>>
    /\ last = <<>>
    /\ iter = None
    /\ handles = <<>>
    /\ result = None

\* the control packet handed to the handler is a Subscribe
InitSubscribe ==
    /\ \E pid \in CtlPacketIds, ts \in CtlTopics :
          LET sub == Subscribe_new(pid, ts)
          IN /\ packet_id = sub.packet_id
             /\ topics = sub.topics
             /\ codes = sub.codes
             /\ last = [i \in 1..Len(ts) |-> <<"none">>]
    /\ iter = None
    /\ handles = <<>>
    /\ result = None
    /\ unsub = None

\* the control packet handed to the handler is an Unsubscribe
InitUnsubscribe ==
    /\ NoSubscribe
    /\ \E pid \in CtlPacketIds, ts \in UnsubTopics :
          unsub = Some(Unsubscribe_new(pid, ts))

Init ==
    /\ (InitSubscribe \/ InitUnsubscribe)
    /\ packet = None
    /\ content_size = 0
    /\ dst0 \in InitialBuffers
    /\ dst = dst0
    /\ ret = "none"

\* the handler starts a traversal; the borrow of an earlier traversal and of
\* the handles it yielded has ended
IterMut ==
    /\ unsub = None
    /\ result = None
    /\ iter' = Some(Subscribe_iter_mut)
    /\ handles' = <<>>
    /\ UNCHANGED <<packet_id, topics, codes, last, result, unsub>>
    /\ UNCHANGED encVars

\* the handler calls next() on the live iterator
IterNext ==
    /\ unsub = None
    /\ result = None
    /\ is_some(iter)
    /\ LET r == next_unsafe(unwrap(iter), topics)
       IN /\ iter' = Some(r.iter)
          /\ handles' = IF is_some(r.item)
                        THEN Append(handles, unwrap(r.item))
                        ELSE handles
    /\ UNCHANGED <<packet_id, topics, codes, last, result, unsub>>
    /\ UNCHANGED encVars

\* the handler calls subscribe(qos) on the handle yielded for entry k
CallSubscribe ==
    /\ unsub = None
    /\ result = None
    /\ \E k \in 1..Len(handles), qos \in QoS :
          /\ codes' = Subscription_subscribe(codes, handles[k], qos)
          /\ last' = [last EXCEPT ![k] = <<"subscribe", qos>>]
    /\ UNCHANGED <<packet_id, topics, iter, handles, result, unsub>>
    /\ UNCHANGED encVars

\* the handler calls fail() on the handle yielded for entry k
CallFail ==
    /\ unsub = None
    /\ result = None
    /\ \E k \in 1..Len(handles) :
          /\ codes' = Subscription_fail(codes, handles[k])
          /\ last' = [last EXCEPT ![k] = <<"fail">>]
    /\ UNCHANGED <<packet_id, topics, iter, handles, result, unsub>>
    /\ UNCHANGED encVars

\* the handler calls ack(), which consumes the Subscribe
Ack ==
    /\ unsub = None
    /\ result = None
    /\ result' = Some(Subscribe_ack(codes, packet_id))
    /\ iter' = None
    /\ handles' = <<>>
    /\ UNCHANGED <<packet_id, topics, codes, last, unsub>>
    /\ UNCHANGED encVars

\* the codec serializes the result as a SubscribeAck
EncodeAck ==
    /\ is_some(result)
    /\ ret = "none"
    /\ LET p == SubscribeAckOf(unwrap(result))
           size == get_encoded_size(p)
           r == encode(p, dst, size)
       IN /\ packet' = Some(p)
          /\ content_size' = size
          /\ dst' = r.dst
          /\ ret' = r.ret
    /\ UNCHANGED dst0
    /\ UNCHANGED ctlVars

\* the handler calls ack() on the Unsubscribe, which consumes it
AckUnsubscribe ==
    /\ is_some(unsub)
    /\ unwrap(unsub).result = None
    /\ unsub' = Some([unwrap(unsub) EXCEPT
                         !.result = Some(Unsubscribe_ack(unwrap(unsub)))])
    /\ UNCHANGED <<packet_id, topics, codes, iter, handles, last, result>>
    /\ UNCHANGED encVars

Next ==
    IterMut \/ IterNext \/ CallSubscribe \/ CallFail \/ Ack \/ EncodeAck
    \/ AckUnsubscribe

Spec == Init /\ [][Next]_vars

-----------------------------------------------------------------------------
(* Packets handed to encode                                                *)

Bool == {TRUE, FALSE}
KeepAlives == {0, 60}

LastWill(qos, retain, topic, message) ==
    [qos |-> qos, retain |-> retain, topic |-> topic, message |-> message]
Connect(clean_session, keep_alive, last_will, client_id, username, password) ==
    [type |-> "Connect", clean_session |-> clean_session,
     keep_alive |-> keep_alive, last_will |-> last_will,
     client_id |-> client_id, username |-> username, password |-> password]
Publish(dup, retain, qos, topic, pid, payload) ==
    [type |-> "Publish", dup |-> dup, retain |-> retain, qos |-> qos,
     topic |-> topic, packet_id |-> pid, payload |-> payload]

Opt(S) == {None} \cup {Some(x) : x \in S}

\* every combination of the Connect flags, over short fields
ConnectShort ==
    {Connect(cs, ka, lw, cid, un, pw) :
        cs \in Bool, ka \in KeepAlives,
        lw \in Opt({LastWill(q, r, t, m) :
                       q \in QoS, r \in Bool, t \in ShortStr(16), m \in ShortStr(32)}),
        cid \in ShortStr(48), un \in Opt(ShortStr(64)), pw \in Opt(ShortStr(80))}

\* a Connect with every optional field present and one field long
ConnectLong ==
    {Connect(TRUE, 60, Some(LastWill("AtLeastOnce", TRUE, f[1], f[2])),
             f[3], Some(f[4]), Some(f[5])) :
        f \in {g \in AnyStr(16) \X AnyStr(32) \X AnyStr(48) \X AnyStr(64) \X AnyStr(80) :
                 /\ Cardinality({i \in 1..5 : Len(g[i]) >= U16_MAX}) = 1
                 /\ \A i \in 1..5 : Len(g[i]) \in {MaxShort, U16_MAX, U16_MAX + 1}}}
    \cup {Connect(FALSE, 60, None, cid, None, None) : cid \in LongStr(48)}

ConnectAcks ==
    {[type |-> "ConnectAck", session_present |-> sp, return_code |-> rc] :
        sp \in Bool, rc \in ConnectAckReason}

Payloads == ShortStr(96) \cup {Str(200, 96), Str(U16_MAX + 1, 96)}
Publishes ==
    {Publish(dup, retain, qos, topic, pid, payload) :
        dup \in Bool, retain \in Bool, qos \in QoS, topic \in AnyStr(112),
        pid \in Opt({1, 17185}), payload \in Payloads}

PacketIdOnly ==
    {[type |-> ty, packet_id |-> pid] :
        ty \in {"PublishAck", "PublishReceived", "PublishRelease",
                "PublishComplete", "UnsubscribeAck"},
        pid \in PacketIds}

Filters == ShortStr(128) \cup {Str(U16_MAX + 1, 128)}
Subscribes ==
    {[type |-> "Subscribe", packet_id |-> 4660, topic_filters |-> fs] :
        fs \in SeqsUpTo(Filters \X QoS, MaxFilters)}
Unsubscribes ==
    {[type |-> "Unsubscribe", packet_id |-> 4660, topic_filters |-> fs] :
        fs \in SeqsUpTo(Filters, MaxFilters)}
SubscribeAcks ==
    {[type |-> "SubscribeAck", packet_id |-> pid, status |-> st] :
        pid \in PacketIds, st \in SeqsUpTo(SubscribeReturnCode, MaxStatus)}

NoBody == {[type |-> ty] : ty \in {"PingRequest", "PingResponse", "Disconnect"}}

\* the packets of the encoder's own tests
Ascii12345 == <<49, 50, 51, 52, 53>>
AsciiTopic == <<116, 111, 112, 105, 99>>
AsciiData == <<100, 97, 116, 97>>
TestConnectUserPass ==
    Connect(FALSE, 60, None, Ascii12345,
            Some(<<117, 115, 101, 114>>), Some(<<112, 97, 115, 115>>))
TestConnectWill ==
    Connect(FALSE, 60,
            Some(LastWill("ExactlyOnce", FALSE, AsciiTopic,
                          <<109, 101, 115, 115, 97, 103, 101>>)),
            Ascii12345, None, None)
TestPublishQos2 == Publish(TRUE, TRUE, "ExactlyOnce", AsciiTopic, Some(17185), AsciiData)
TestPublishQos0 == Publish(FALSE, FALSE, "AtMostOnce", AsciiTopic, None, AsciiData)
TestSubscribeAck ==
    [type |-> "SubscribeAck", packet_id |-> 4660,
     status |-> <<Success("AtLeastOnce"), Failure, Success("ExactlyOnce")>>]
TestVectors ==
    {TestConnectUserPass, TestConnectWill, TestPublishQos2, TestPublishQos0,
     TestSubscribeAck}

Packets ==
    ConnectShort \cup ConnectLong \cup ConnectAcks \cup Publishes \cup PacketIdOnly
    \cup Subscribes \cup SubscribeAcks \cup Unsubscribes \cup NoBody
    \cup TestVectors

\* the control object the encoder runs beside: none in flight
CtlIdle ==
    /\ NoSubscribe
    /\ unsub = None

-----------------------------------------------------------------------------
(* encode(packet, dst, get_encoded_size(packet)) on every packet           *)

InitEncode ==
    /\ CtlIdle
    /\ \E p \in Packets :
          /\ packet = Some(p)
          /\ content_size = get_encoded_size(p)
    /\ dst0 \in InitialBuffers
    /\ dst = dst0
    /\ ret = "none"

Encode ==
    /\ ret = "none"
    /\ is_some(packet)
    /\ LET r == encode(unwrap(packet), dst, content_size)
       IN /\ dst' = r.dst
          /\ ret' = r.ret
    /\ UNCHANGED <<packet, content_size, dst0>>
    /\ UNCHANGED ctlVars

NextEncode == Encode

SpecEncode == InitEncode /\ [][NextEncode]_vars

-----------------------------------------------------------------------------
(* write_variable_length(size, dst), alone and inside encode               *)

\* every size up to MaxSmallSize, and the sizes around each size class
MaxSmallSize == 300
Boundaries == {16383, 2097151, 268435455}
\* sizes past the largest one that four base-128 bytes hold
Oversized ==
    {268435456 + 129, 268435456 + 2097152, 536870912, 536870912 + 2097152 + 5,
     1073741824 + 16384, 2147483647 - 128}
Sizes ==
    (0..MaxSmallSize)
    \cup {b + d : b \in Boundaries, d \in {-1, 0, 1}}
    \cup {16384 + 129, 2097152 + 16384 + 129, 268435455 - 128, 2147483647}
    \cup Oversized

SizedPackets ==
    {[type |-> "PingRequest"],
     [type |-> "PublishAck", packet_id |-> 4660],
     Publish(FALSE, FALSE, "AtMostOnce", Str(1, 112), None, Str(1, 96))}

InitVarLen ==
    /\ CtlIdle
    /\ packet \in {Some(p) : p \in SizedPackets}
    /\ content_size \in Sizes
    /\ dst0 \in InitialBuffers
    /\ dst = dst0
    /\ ret = "none"

WriteVariableLength ==
    /\ ret = "none"
    /\ dst' = write_variable_length(content_size, dst)
    /\ ret' = "written"
    /\ UNCHANGED <<packet, content_size, dst0>>
    /\ UNCHANGED ctlVars

NextVarLen == WriteVariableLength \/ Encode

SpecVarLen == InitVarLen /\ [][NextVarLen]_vars

-----------------------------------------------------------------------------
(* What the claims read off a state                                        *)

\* the bytes the call appended to the destination buffer
Written == SubSeq(dst, Len(dst0) + 1, Len(dst))

\* a 16-bit big-endian integer on the wire
BE16(v) == <<v \div 256, v % 256>>
\* a length-prefixed string or byte buffer on the wire
FieldWire(f) == BE16(Len(f)) \o f

\* the number of bytes of the remaining-length field that starts at w[from]:
\* the bytes up to and including the first one with bit 7 clear, at most 4
RemLenFieldLen(w, from) ==
    IF w[from] < 128 THEN 1
    ELSE IF w[from + 1] < 128 THEN 2
    ELSE IF w[from + 2] < 128 THEN 3
    ELSE 4

\* the bytes written after the 1-byte header and the remaining-length field
Body == SubSeq(Written, 2 + RemLenFieldLen(Written, 2), Len(Written))

\* the value of a base-128 field: the sum of (b_i mod 128) * 128^i
RECURSIVE Base128(_)
Base128(w) ==
    IF w = <<>> THEN 0 ELSE (w[1] % 128) + 128 * Base128(Tail(w))

\* the outcome the handler chose for an entry by its last call
OutcomeOf(call) ==
    IF call[1] = "subscribe" THEN Success(call[2]) ELSE Failure

-----------------------------------------------------------------------------
(* Claims about the control object (specification Spec)                    *)

\* C1: once a Subscribe built from n (topic, QoS) pairs is acknowledged,
\* whatever traversals and calls the handler made, the result holds exactly
\* n codes and code i is the outcome chosen for the i-th requested filter.
C1_OneStatusPerFilterInOrder ==
    is_some(result) =>
        /\ Len(unwrap(result).codes) = Len(topics)
        /\ \A i \in 1..Len(topics) :
              unwrap(result).codes[i] = OutcomeOf(last[i])

\* C1 witness: two filters, the handler called subscribe on the second only
C1_Witness ==
    /\ is_some(result)
    /\ Len(topics) = 2
    /\ last[1] = <<"none">>
    /\ last[2] = <<"subscribe", "ExactlyOnce">>
    /\ unwrap(result).codes = <<Failure, Success("ExactlyOnce")>>

\* C2: on ack(), code i is Failure when the handler never called subscribe on
\* entry i or called fail() last, and is Success(q) exactly when the last
\* call made on entry i was subscribe(q).
C2_DefaultFailOnUnvisited ==
    is_some(result) =>
        \A i \in 1..Len(unwrap(result).codes) :
            LET code == unwrap(result).codes[i]
            IN /\ (last[i] \in {<<"none">>, <<"fail">>}) => code = Failure
               /\ \A q \in QoS : (code = Success(q)) <=> (last[i] = <<"subscribe", q>>)

\* C2 witness: the example of the claim, subscribe(QoS1) on the first of two
\* topics and no call on the second
C2_Witness ==
    /\ is_some(result)
    /\ last = << <<"subscribe", "AtLeastOnce">>, <<"none">> >>
    /\ unwrap(result).codes = <<Success("AtLeastOnce"), Failure>>

\* C9: a SubscribeAck is written as the packet id followed by one status
\* byte per entry, in order: 0, 1 or 2 for Success(qos), 0x80 for Failure;
\* the acknowledgment of a Subscribe of n filters carries n status bytes.
C9_SubscribeAckStatusBytes ==
    (is_some(result) /\ ret # "none") =>
        LET res == unwrap(result)
            status == SubSeq(Body, 3, Len(Body))
        IN /\ ret = "Ok"
           /\ SubSeq(Body, 1, 2) = BE16(res.packet_id)
           /\ Len(status) = Len(topics)
           /\ \A i \in 1..Len(status) :
                 status[i] = CASE res.codes[i] = Success("AtMostOnce") -> 0
                               [] res.codes[i] = Success("AtLeastOnce") -> 1
                               [] res.codes[i] = Success("ExactlyOnce") -> 2
                               [] res.codes[i] = Failure -> 128

\* C9 witness: a two-filter Subscribe acknowledged as [Failure, Success(QoS2)]
C9_Witness ==
    /\ is_some(result)
    /\ ret = "Ok"
    /\ packet_id = 4660
    /\ unwrap(result).codes = <<Failure, Success("ExactlyOnce")>>
    /\ Written = <<144, 4, 18, 52, 128, 2>>

-----------------------------------------------------------------------------
(* Claims about encode (specification SpecEncode)                          *)

\* the packet handed to encode, once encode has returned
Encoded(ty) == ret # "none" /\ is_some(packet) /\ unwrap(packet).type = ty

\* C3 as stated: for every packet and every field value, the precomputed
\* size equals the number of body bytes encode appends after the header and
\* the remaining-length field.
C3_SizeIsBodyLengthAlways ==
    (ret # "none" /\ is_some(packet)) =>
        Len(Body) = get_encoded_size(unwrap(packet))

\* C3 amended: whenever encode returns Ok, the precomputed size equals the
\* number of body bytes appended after the header and the remaining-length
\* field; whenever encode returns an error, the number of body bytes it
\* appended is at most the precomputed size.
C3_SizeIsBodyLengthOnOk ==
    /\ (ret = "Ok" /\ is_some(packet)) =>
          /\ Len(Body) = get_encoded_size(unwrap(packet))
          /\ Len(Written) = 1 + RemLenFieldLen(Written, 2)
                              + get_encoded_size(unwrap(packet))
    /\ (ret \notin {"none", "Ok", "written"} /\ is_some(packet)) =>
          Len(Body) <= get_encoded_size(unwrap(packet))

\* C3 witness: the QoS 2 Publish of the tests, 13 body bytes
C3_Witness ==
    /\ ret = "Ok"
    /\ packet = Some(TestPublishQos2)
    /\ get_encoded_size(unwrap(packet)) = 13
    /\ Len(Body) = 13

\* C4: when encode fails, the destination buffer is as it was before the
\* call (no header, remaining length or partial body is left in it).
C4_NoBytesLeftOnError ==
    (ret \notin {"none", "Ok", "written"}) => dst = dst0

\* the body of a Publish that encodes: topic, packet id when QoS > 0, payload
PublishBodyWire(p) ==
    FieldWire(p.topic)
    \o (IF p.qos # "AtMostOnce" THEN BE16(unwrap(p.packet_id)) ELSE <<>>)
    \o p.payload

\* what the claim says encode returns for the packet id of a Publish
PublishIdOutcome(p) ==
    IF p.qos = "AtMostOnce" /\ is_some(p.packet_id) THEN "MalformedPacket"
    ELSE IF p.qos # "AtMostOnce" /\ ~is_some(p.packet_id) THEN "PacketIdRequired"
    ELSE "Ok"

\* C5 as stated: a Publish with QoS 0 and a packet id returns
\* Err(MalformedPacket), with QoS > 0 and no packet id Err(PacketIdRequired),
\* whatever its topic; the other two combinations return Ok when the topic
\* fits in 65535 bytes, and then the packet id follows the topic exactly
\* when QoS > 0.
C5_PublishPacketIdAnyTopic ==
    Encoded("Publish") =>
        LET p == unwrap(packet)
        IN /\ PublishIdOutcome(p) # "Ok" => ret = PublishIdOutcome(p)
           /\ (PublishIdOutcome(p) = "Ok" /\ Len(p.topic) <= 65535) => ret = "Ok"
           /\ ret = "Ok" => Body = PublishBodyWire(p)

\* C5 amended: provided the topic fits in 65535 bytes, a Publish with QoS 0
\* and a packet id returns Err(MalformedPacket), with QoS > 0 and no packet
\* id Err(PacketIdRequired), and Ok otherwise, the packet id following the
\* topic exactly when QoS > 0; a longer topic returns Err(InvalidLength) in
\* every combination.
C5_PublishPacketIdTopicFits ==
    Encoded("Publish") =>
        LET p == unwrap(packet)
        IN /\ Len(p.topic) <= 65535 => ret = PublishIdOutcome(p)
           /\ Len(p.topic) > 65535 => ret = "InvalidLength"
           /\ ret = "Ok" => Body = PublishBodyWire(p)

\* C5 witness: QoS 1 without a packet id is refused
C5_Witness ==
    /\ Encoded("Publish")
    /\ unwrap(packet).qos = "AtLeastOnce"
    /\ unwrap(packet).packet_id = None
    /\ Len(unwrap(packet).topic) = 1
    /\ ret = "PacketIdRequired"

\* C10: the first byte written for a Publish has high nibble 3, bit 3 equal
\* to dup, bits 2-1 equal to the numeric QoS (0, 1 or 2) and bit 0 equal to
\* retain.
C10_PublishFirstByte ==
    Encoded("Publish") =>
        LET p == unwrap(packet)
            b == Written[1]
            qosbits == (b \div 2) % 4
        IN /\ b \div 16 = 3
           /\ (b \div 8) % 2 = (IF p.dup THEN 1 ELSE 0)
           /\ qosbits = (IF p.qos = "AtMostOnce" THEN 0
                         ELSE IF p.qos = "AtLeastOnce" THEN 1 ELSE 2)
           /\ b % 2 = (IF p.retain THEN 1 ELSE 0)

\* C10 witness: dup, retain, ExactlyOnce gives 0x3d
C10_Witness ==
    /\ Encoded("Publish")
    /\ unwrap(packet).dup
    /\ unwrap(packet).retain
    /\ unwrap(packet).qos = "ExactlyOnce"
    /\ Written[1] = 61


\* the length-prefixed fields of a packet, in the order of the wire
LengthPrefixedFields(p) ==
    CASE p.type = "Connect" ->
            <<p.client_id>>
            \o (IF is_some(p.last_will)
                THEN <<unwrap(p.last_will).topic, unwrap(p.last_will).message>>
                ELSE <<>>)
            \o (IF is_some(p.username) THEN <<unwrap(p.username)>> ELSE <<>>)
            \o (IF is_some(p.password) THEN <<unwrap(p.password)>> ELSE <<>>)
      [] p.type = "Publish" -> <<p.topic>>
      [] p.type = "Subscribe" ->
            [i \in 1..Len(p.topic_filters) |-> p.topic_filters[i][1]]
      [] p.type = "Unsubscribe" -> p.topic_filters
      [] OTHER -> <<>>

\* the bytes that follow each length-prefixed field of a packet
BytesAfterField(p, i) ==
    CASE p.type = "Publish" ->
            (IF p.qos # "AtMostOnce" /\ is_some(p.packet_id)
             THEN BE16(unwrap(p.packet_id)) ELSE <<>>) \o p.payload
      [] p.type = "Subscribe" ->
            <<CASE p.topic_filters[i][2] = "AtMostOnce" -> 0
                [] p.topic_filters[i][2] = "AtLeastOnce" -> 1
                [] p.topic_filters[i][2] = "ExactlyOnce" -> 2>>
      [] OTHER -> <<>>

\* the number of body bytes before the first length-prefixed field
BytesBeforeFields(p) ==
    CASE p.type = "Connect" -> 10
      [] p.type = "Publish" -> 0
      [] OTHER -> 2

\* the fields from the i-th on as the claim puts them on the wire: each field
\* of at most 65535 bytes as its 16-bit length and its bytes, and nothing
\* from the first longer field on
RECURSIVE FieldsWire(_, _)
FieldsWire(p, i) ==
    IF i > Len(LengthPrefixedFields(p)) THEN <<>>
    ELSE IF Len(LengthPrefixedFields(p)[i]) > 65535 THEN <<>>
    ELSE FieldWire(LengthPrefixedFields(p)[i]) \o BytesAfterField(p, i)
         \o FieldsWire(p, i + 1)

HasLongField(p) ==
    \E i \in 1..Len(LengthPrefixedFields(p)) : Len(LengthPrefixedFields(p)[i]) > 65535

\* C7: a packet with a string or byte-buffer field longer than 65535 bytes
\* makes encode return Err(InvalidLength), and no length is written for that
\* field; every field of L <= 65535 bytes that is written is the 2-byte
\* big-endian L followed by exactly its L bytes.
C7_LengthPrefixedFields ==
    (ret # "none" /\ is_some(packet)) =>
        LET p == unwrap(packet)
        IN /\ HasLongField(p) <=> ret = "InvalidLength"
           /\ (ret \in {"Ok", "InvalidLength"} /\ LengthPrefixedFields(p) # <<>>) =>
                 SubSeq(Body, BytesBeforeFields(p) + 1, Len(Body)) = FieldsWire(p, 1)

\* C7 witness: a Connect whose password is 65536 bytes long is refused after
\* its other fields were written
C7_Witness ==
    /\ Encoded("Connect")
    /\ is_some(unwrap(packet).password)
    /\ Len(unwrap(unwrap(packet).password)) = 65536
    /\ Len(unwrap(packet).client_id) = MaxShort
    /\ ret = "InvalidLength"
    /\ Len(Body) > 10

\* C8: in every Connect that encodes, the connect-flags byte agrees with the
\* body: bit 7 iff username, bit 6 iff password, bit 2 iff will, bit 5 iff a
\* will with retain, bits 4-3 the will QoS (0 without a will), bit 1 iff
\* clean_session, bit 0 clear; and after the client id come will topic, will
\* message, username, password, each exactly when its flag bit is set.
C8_ConnectFlagsAgreeWithBody ==
    (Encoded("Connect") /\ ret = "Ok") =>
        LET p == unwrap(packet)
            f == Body[8]
            w == unwrap(p.last_will)
            un == unwrap(p.username)
            pw == unwrap(p.password)
        IN /\ SubSeq(Body, 1, 7) = <<0, 4, 77, 81, 84, 84, 4>>
           /\ SubSeq(Body, 9, 10) = BE16(p.keep_alive)
           /\ Bit(f, 7) = 1 <=> is_some(p.username)
           /\ Bit(f, 6) = 1 <=> is_some(p.password)
           /\ Bit(f, 2) = 1 <=> is_some(p.last_will)
           /\ Bit(f, 5) = 1 <=> (is_some(p.last_will) /\ w.retain)
           /\ (f \div 8) % 4 =
                 (IF ~is_some(p.last_will) \/ w.qos = "AtMostOnce" THEN 0
                  ELSE IF w.qos = "AtLeastOnce" THEN 1 ELSE 2)
           /\ Bit(f, 1) = 1 <=> p.clean_session
           /\ Bit(f, 0) = 0
           /\ SubSeq(Body, 11, Len(Body)) =
                 FieldWire(p.client_id)
                 \o (IF Bit(f, 2) = 1 THEN FieldWire(w.topic) \o FieldWire(w.message)
                     ELSE <<>>)
                 \o (IF Bit(f, 7) = 1 THEN FieldWire(un) ELSE <<>>)
                 \o (IF Bit(f, 6) = 1 THEN FieldWire(pw) ELSE <<>>)

\* C8 witness: the Connect of the tests with a username and a password and
\* no will, whose flags byte is 0xC0
C8_Witness ==
    /\ ret = "Ok"
    /\ packet = Some(TestConnectUserPass)
    /\ Written = <<16, 29, 0, 4, 77, 81, 84, 84, 4, 192, 0, 60,
                   0, 5, 49, 50, 51, 52, 53,
                   0, 4, 117, 115, 101, 114, 0, 4, 112, 97, 115, 115>>

-----------------------------------------------------------------------------
(* Claims about write_variable_length (specification SpecVarLen)           *)

\* C6: for 0 <= n <= 268435455 write_variable_length appends 1 byte for
\* n <= 127, 2 for n <= 16383, 3 for n <= 2097151 and 4 otherwise; every
\* byte but the last has bit 7 set, the last has it clear, and the sum of
\* (b_i mod 128) * 128^i is n.
C6_VariableLengthEncoding ==
    (ret = "written" /\ content_size <= 268435455) =>
        LET n == content_size
            k == IF n <= 127 THEN 1 ELSE IF n <= 16383 THEN 2
                 ELSE IF n <= 2097151 THEN 3 ELSE 4
        IN /\ Len(Written) = k
           /\ \A i \in 1..Len(Written) : Written[i] \in 0..255
           /\ \A i \in 1..(Len(Written) - 1) : Written[i] >= 128
           /\ Written[Len(Written)] < 128
           /\ Base128(Written) = n

\* C6 witness: the largest size, 268435455, is written as ff ff ff 7f
C6_Witness ==
    /\ ret = "written"
    /\ content_size = 268435455
    /\ Written = <<255, 255, 255, 127>>

\* the four bytes the last branch of write_variable_length computes for n
OversizedField(n) ==
    <<(n % 128) + 128,
      ((n \div 128) % 128) + 128,
      ((n \div 16384) % 128) + 128,
      (n \div 2097152) % 256>>

\* C11: for every content_size above 268435455 write_variable_length
\* reports nothing and appends exactly 4 bytes, the fourth being the low 8
\* bits of content_size >> 21; the field is not the base-128 encoding of
\* content_size (its value is content_size mod 2^28), and an encode that
\* writes the field for a well-formed packet still returns Ok.
C11_OversizedSizeNotValidated ==
    content_size > 268435455 =>
        LET n == content_size
        IN /\ ret = "written" =>
                 /\ Len(Written) = 4
                 /\ Written = OversizedField(n)
                 /\ Written[4] = (n \div 2097152) % 256
                 /\ Base128(Written) = n % 268435456
                 /\ Base128(Written) # n
           /\ (ret \notin {"none", "written"}
               /\ unwrap(packet).type \in {"PublishAck", "Publish"}) =>
                 /\ ret = "Ok"
                 /\ SubSeq(Written, 2, 5) = OversizedField(n)
                 /\ Base128(SubSeq(Written, 2, 5)) # n

\* C11 witness: encode returns Ok for a PublishAck with content_size
\* 268435456 + 2097152, after writing the field 80 80 80 81, whose last byte
\* carries the continuation bit
C11_Witness ==
    /\ ret = "Ok"
    /\ content_size = 268435456 + 2097152
    /\ packet = Some([type |-> "PublishAck", packet_id |-> 4660])
    /\ Written = <<PUBACK, 128, 128, 128, 129, 18, 52>>

-----------------------------------------------------------------------------
(* What the handles, the traversals and ack() leave alone (specification   *)
(* Spec)                                                                   *)

\* one step of the handler: the packet id, the topics with their requested
\* QoS and the number of outcome slots stay as they are; a slot whose handle
\* was not called keeps its value; a slot whose handle was called holds the
\* outcome of that call; an Unsubscribe keeps its packet id and topics
C12_Frame ==
    /\ packet_id' = packet_id
    /\ topics' = topics
    /\ Len(codes') = Len(codes)
    /\ Len(last') = Len(codes')
    /\ \A j \in 1..Len(codes) :
          IF last'[j] = last[j]
          THEN codes'[j] = codes[j]
          ELSE codes'[j] = OutcomeOf(last'[j])
    /\ Cardinality({j \in 1..Len(codes) : codes'[j] # codes[j]}) <= 1
    /\ is_some(unsub) =>
          /\ is_some(unsub')
          /\ unwrap(unsub').packet_id = unwrap(unsub).packet_id
          /\ unwrap(unsub').topics = unwrap(unsub).topics

\* the handles the live traversal has yielded so far are those of the
\* entries 0..entry-1, in order, and there are never more than n of them
C12_Traversal ==
    is_some(iter) =>
        /\ unwrap(iter).entry <= Len(topics)
        /\ Len(handles) = unwrap(iter).entry
        /\ \A k \in 1..Len(handles) :
              handles[k] = [topic |-> topics[k][1],
                            qos |-> topics[k][2],
                            code |-> k - 1]

\* the result of ack() carries the packet id of the object it came from
C12_ResultPacketId ==
    /\ is_some(result) => unwrap(result).packet_id = packet_id
    /\ (is_some(unsub) /\ is_some(unwrap(unsub).result)) =>
          unwrap(unwrap(unsub).result).packet_id = unwrap(unsub).packet_id

\* C12: subscribe(qos) or fail() on the handle of entry i changes only
\* outcome slot i (topics, requested QoS, packet id, the number of slots
\* and every other slot stay unchanged); each traversal started by iter_mut
\* yields the entries 0..n-1 once each in order and then ends; and the
\* SubscribeResult / UnsubscribeResult of ack() carries the packet id the
\* control object was constructed with.
C12_HandleFrameTraversalPacketId ==
    /\ [][C12_Frame]_vars
    /\ [](C12_Traversal /\ C12_ResultPacketId)

\* C12 witness: a Subscribe for two topics with packet id 4660, acknowledged
\* after a full traversal in which only the second entry was granted
C12_Witness ==
    /\ packet_id = 4660
    /\ Len(topics) = 2
    /\ last = <<(<<"none">>), (<<"subscribe", "ExactlyOnce">>)>>
    /\ result = Some([codes |-> <<Failure, Success("ExactlyOnce")>>,
                      packet_id |-> 4660])

=============================================================================
